---------------------------- MODULE Spec2Model ----------------------------
(***************************************************************************)
(* A model of progress-bar-rs (src/src/main.rs): a single-endpoint HTTP    *)
(* service that renders a progress-bar SVG from query parameters.          *)
(*                                                                         *)
(*   - get_progress_color and extract_template_fields are pure functions,  *)
(*     modelled as operators and exercised by SpecThreshold / SpecDerive;  *)
(*   - main (startup) and serve_progress_svg_image (the request handler,   *)
(*     run by several workers) are modelled as the state machine Spec.     *)
(***************************************************************************)
EXTENDS Integers, Sequences, FiniteSets, TLC

(***************************************************************************)
(* Bounds of the model.                                                    *)
(***************************************************************************)
MaxProgress == 100      \* finite progress values are the integers -1..MaxProgress
MaxScale    == 10       \* explicit finite scales are the integers -1..MaxScale
MaxTitleLen == 2        \* titles have at most this many characters
NumWorkers  == 2        \* worker threads of the HttpServer

(***************************************************************************)
(* Option<T>.                                                              *)
(***************************************************************************)
None == [tag |-> "None"]

Some(x) == [tag |-> "Some", v |-> x]

IsSome(o) == o.tag = "Some"

\* Faulty variant: the default replaces an explicit value.
unwrap_or_ignoring(o, d) == d

unwrap_or(o, d) == IF IsSome(o) THEN o.v ELSE d

Option(S) == {None} \cup {Some(x) : x \in S}

(***************************************************************************)
(* f32.  A value parsed from the query string is a finite number, +inf,    *)
(* -inf or NaN (str::parse::<f32> accepts "inf" and "NaN").  The finite    *)
(* inputs of the model are integers, which f32 holds exactly.  A quotient  *)
(* is kept as IEEE-754 binary32 keeps it: sign, 24-bit significand m with  *)
(* 2^23 <= m < 2^24, exponent e, value sg * m * 2^e, rounded to nearest,   *)
(* ties to even.                                                           *)
(***************************************************************************)
Fin(n) == [k |-> "fin", n |-> n]

PosInf == [k |-> "inf", n |-> 0]

NegInf == [k |-> "ninf", n |-> 0]

NaN == [k |-> "nan", n |-> 0]

NonFinite == {PosInf, NegInf, NaN}

IsFinite(x) == x.k = "fin"

Abs(n) == IF n < 0 THEN -n ELSE n

Sign(n) == IF n < 0 THEN -1 ELSE IF n = 0 THEN 0 ELSE 1

Pow23 == 2^23

Pow24 == 2^24

QFin(sg, m, e) == [k |-> "fin", sg |-> sg, m |-> m, e |-> e]

QZero == QFin(0, 0, 0)

QInf(sg) == [k |-> "inf", sg |-> sg, m |-> 0, e |-> 0]

QNaN == [k |-> "nan", sg |-> 0, m |-> 0, e |-> 0]

\* Scale num/den (both positive) by a power of two until the quotient lies in
\* [2^23, 2^24); the result is <<num, den, e>> with num/den * 2^e unchanged.
RECURSIVE Normalize(_, _, _)
Normalize(num, den, e) ==
    IF num < Pow23 * den THEN Normalize(2 * num, den, e - 1)
    ELSE IF num >= Pow24 * den THEN Normalize(num, 2 * den, e + 1)
    ELSE <<num, den, e>>

\* The binary32 nearest to a/b (a, b integers, b # 0), ties to even.
RoundQ(a, b) ==
    IF a = 0 THEN QZero
    ELSE LET nz  == Normalize(Abs(a), Abs(b), 0)
             num == nz[1]
             den == nz[2]
             m   == num \div den
             rem == num - m * den
             up  == 2 * rem > den \/ (2 * rem = den /\ m % 2 = 1)
             m1  == IF up THEN m + 1 ELSE m
         IN  IF m1 = Pow24 THEN QFin(Sign(a) * Sign(b), Pow23, nz[3] + 1)
             ELSE QFin(Sign(a) * Sign(b), m1, nz[3])

\* progress / scale  in f32 (main.rs:146).
F32Div(p, s) ==
    CASE p.k = "nan" \/ s.k = "nan"      -> QNaN
      [] ~IsFinite(p) /\ ~IsFinite(s)    -> QNaN
      [] ~IsFinite(p)                    ->
            QInf((IF p.k = "inf" THEN 1 ELSE -1) * (IF s.n < 0 THEN -1 ELSE 1))
      [] ~IsFinite(s)                    -> QZero
      [] s.n = 0 /\ p.n = 0              -> QNaN
      [] s.n = 0                         -> QInf(Sign(p.n))
      [] OTHER                           -> RoundQ(p.n, s.n)

MagLt(x, y) == x.e < y.e \/ (x.e = y.e /\ x.m < y.m)

\* x < y  in f32: false as soon as either side is NaN.
F32Lt(x, y) ==
    CASE x.k = "nan" \/ y.k = "nan" -> FALSE
      [] x.k = "inf"                -> x.sg < 0 /\ ~(y.k = "inf" /\ y.sg < 0)
      [] y.k = "inf"                -> y.sg > 0
      [] x.sg # y.sg                -> x.sg < y.sg
      [] x.sg = 0                   -> FALSE
      [] x.sg > 0                   -> MagLt(x, y)
      [] OTHER                      -> MagLt(y, x)

\* The literals 0.3 and 0.7 of main.rs:148 and :150, as f32.
Lit03 == RoundQ(3, 10)

Lit07 == RoundQ(7, 10)

(***************************************************************************)
(* Strings.  A title is a sequence of Unicode code points; String::len()   *)
(* is the length of its UTF-8 encoding in bytes.                           *)
(***************************************************************************)
Utf8Len(cp) == IF cp < 128 THEN 1 ELSE IF cp < 2048 THEN 2 ELSE IF cp < 65536 THEN 3 ELSE 4

RECURSIVE StrLen(_)
StrLen(s) == IF s = <<>> THEN 0 ELSE Utf8Len(Head(s)) + StrLen(Tail(s))

CharCount(s) == Len(s)

(***************************************************************************)
(* serde_json::Value, as far as the handler builds it.                     *)
(***************************************************************************)
JNull == [t |-> "null", v |-> <<>>]

JInt(i) == [t |-> "int", v |-> i]

JStr(s) == [t |-> "str", v |-> s]

\* Value::from(f32): a number, or Null when the float is infinite or NaN.
JFloat(f) == IF IsFinite(f) THEN [t |-> "float", v |-> f] ELSE JNull

\* args[key] = val  on a JSON object (IndexMut inserts a missing key).
Set(args, key, val) ==
    [f \in DOMAIN args \cup {key} |-> IF f = key THEN val ELSE args[f]]

EmptyObject == [f \in {} |-> JNull]

(***************************************************************************)
(* Color Policy (main.rs:145-155).                                         *)
(***************************************************************************)
LowColor == "#d9534f"

MidColor == "#f0ad4e"

HighColor == "#5cb85c"

DefaultTitleColor == "#428bca"

\* Faulty variant: <= in place of <, so a boundary ratio falls in the lower band.
get_progress_color_le(progress, scale) ==
    LET ratio == F32Div(progress, scale)
    IN  IF ~F32Lt(Lit03, ratio) /\ ratio.k # "nan" THEN LowColor
        ELSE IF ~F32Lt(Lit07, ratio) /\ ratio.k # "nan" THEN MidColor
        ELSE HighColor

get_progress_color(progress, scale) ==
    LET ratio == F32Div(progress, scale)
    IN  IF F32Lt(ratio, Lit03) THEN LowColor
        ELSE IF F32Lt(ratio, Lit07) THEN MidColor
        ELSE HighColor

(***************************************************************************)
(* Field Deriver (main.rs:157-183).                                        *)
(***************************************************************************)
\* Value::from_serializable(&args): the same object as a template value, key
\* by key; Null stays a value that is no number.
from_serializable(args) == args

extract_template_fields(query) ==
    LET hasTitle == IsSome(query.title)
        progress_width == IF hasTitle THEN 60 ELSE 90
        title_width == IF hasTitle THEN 10 + 6 * StrLen(query.title.v) ELSE 0
        a0 == EmptyObject
        a1 == IF hasTitle THEN Set(a0, "title", JStr(query.title.v)) ELSE a0
        a2 == IF IsSome(query.title_width)
              THEN Set(a1, "title_width", JInt(query.title_width.v)) ELSE a1
        scale == unwrap_or(query.scale, Fin(100))
        a3 == Set(a2, "title_color", JStr(unwrap_or(query.title_color, DefaultTitleColor)))
        a4 == Set(a3, "title_width", JInt(unwrap_or(query.title_width, title_width)))
        a5 == Set(a4, "scale", JFloat(scale))
        a6 == Set(a5, "progress", JFloat(query.progress))
        a7 == Set(a6, "progress_width", JInt(unwrap_or(query.progress_width, progress_width)))
        a8 == Set(a7, "progress_color",
                  JStr(IF IsSome(query.progress_color) THEN query.progress_color.v
                       ELSE get_progress_color(query.progress, scale)))
        a9 == Set(a8, "suffix", JStr(unwrap_or(query.suffix, "%")))
    IN  from_serializable(a9)


(***************************************************************************)
(* The query string and its deserialization into QueryArgs                 *)
(* (web::Query<QueryArgs>, main.rs:77-94).                                 *)
(***************************************************************************)
\* QueryArgs (main.rs:77-87) after deserialization.
QueryArgs(t, tw, tc, sc, pr, pw, pc, sf) ==
    [title |-> t, title_width |-> tw, title_color |-> tc, scale |-> sc,
     progress |-> pr, progress_width |-> pw, progress_color |-> pc, suffix |-> sf]

Ok(x) == [ok |-> TRUE, v |-> x]

Err(e) == [ok |-> FALSE, e |-> e]

\* str::parse::<f32> on the texts the model sends.
F32Texts == [inf |-> PosInf, NaN |-> NaN] @@ ("50" :> Fin(50)) @@ ("0" :> Fin(0))

\* str::parse::<i32> on the texts the model sends.
I32Texts == ("5" :> 5) @@ ("-7" :> -7)

ParseWith(table, text) ==
    IF text \in DOMAIN table THEN Ok(table[text]) ELSE Err("invalid number")

\* An Option<number> field: absent is None, present must parse.
ParseOptional(table, raw) ==
    IF raw = None THEN Ok(None)
    ELSE LET r == ParseWith(table, raw.v) IN IF r.ok THEN Ok(Some(r.v)) ELSE r

\* Faulty variant: a missing progress defaults to 0, as #[serde(default)] would.
ParseRequiredDefaulting(table, raw) ==
    IF raw = None THEN Ok(Fin(0)) ELSE ParseWith(table, raw.v)

\* The required field progress: absent is an error (missing field).
ParseRequired(table, raw) ==
    IF raw = None THEN Err("missing field") ELSE ParseWith(table, raw.v)

\* serde_urlencoded into QueryArgs: unknown keys (raw.other) are ignored, the
\* string fields are taken as they are.
Deserialize(raw) ==
    LET tw == ParseOptional(I32Texts, raw.title_width)
        sc == ParseOptional(F32Texts, raw.scale)
        pr == ParseRequired(F32Texts, raw.progress)
        pw == ParseOptional(I32Texts, raw.progress_width)
    IN  IF tw.ok /\ sc.ok /\ pr.ok /\ pw.ok
        THEN Ok(QueryArgs(raw.title, tw.v, raw.title_color, sc.v, pr.v, pw.v,
                          raw.progress_color, raw.suffix))
        ELSE Err("Query deserialize error")

(***************************************************************************)
(* Template Store: minijinja::Environment with its templates and filters.  *)
(***************************************************************************)
TEMPLATE_NAME == "pbar_template"

ContextFields ==
    {"title_color", "title_width", "scale", "progress", "progress_width",
     "progress_color", "suffix"}

\* resources/default.svg: uses the seven derived fields and applies the
\* numeric filter int to the geometry.
DefaultTemplate ==
    [id |-> "default.svg", refs |-> ContextFields,
     ints |-> {"progress", "scale", "progress_width", "title_width"}]

\* A well-formed template file given with -f; this one also prints the title.
FileTemplate ==
    [id |-> "file", refs |-> ContextFields \cup {"title"},
     ints |-> {"progress", "scale", "progress_width", "title_width"}]

Environment_new == [templates |-> [n \in {} |-> DefaultTemplate], filters |-> {}]

add_template(env, name, template) ==
    [env EXCEPT !.templates = [n \in DOMAIN @ \cup {name} |->
                                  IF n = name THEN template ELSE @[n]]]

add_filter(env, name) == [env EXCEPT !.filters = @ \cup {name}]

get_template(env, name) ==
    IF name \in DOMAIN env.templates THEN Ok(env.templates[name])
    ELSE Err("template not found")

\* template.render(&ctx): fails when the template uses a field the context
\* lacks, or hands the filter int a value that is no number; otherwise the
\* text is a function of the template and of the fields it uses.
render(template, c) ==
    IF \/ \E f \in template.refs : f \notin DOMAIN c
       \/ \E f \in template.ints : f \in DOMAIN c /\ c[f].t \notin {"int", "float"}
    THEN Err("render error")
    ELSE Ok([template |-> template.id, fields |-> [f \in template.refs |-> c[f]]])

(***************************************************************************)
(* The handler's log header and responses (main.rs:95-141).                *)
(***************************************************************************)
TextPlain == "text/plain; charset=utf-8"

ImageSvg == "image/svg+xml; charset=utf-8"

HttpResponse(status, content_type, body) ==
    [status |-> status, content_type |-> content_type, body |-> body]

\* main.rs:95-99
log_header(req) ==
    [addr |-> IF IsSome(req.peer) THEN req.peer.v ELSE "<UNKNOWN>", uri |-> req.raw]

LogRecord(level, header, text) == [level |-> level, header |-> header, text |-> text]

\* actix-web answers a failed Query extractor itself; the handler is not called.
QueryErrorResponse(e) ==
    HttpResponse(400, TextPlain, [kind |-> "query error", arg |-> e])

\* main.rs:106-109
TemplateMissingResponse(e) ==
    HttpResponse(500, TextPlain, [kind |-> "Failed to find template", arg |-> e])

\* main.rs:133-135
OkResponse(x) == HttpResponse(200, ImageSvg, [kind |-> "svg", arg |-> x])

\* Faulty variant: the body also carries the peer address of the log header.
RenderFailedResponseWithHeader(header, c) ==
    HttpResponse(400, TextPlain,
                 [kind |-> "Failed to construct progress bar", arg |-> <<header.addr, c>>])

\* Faulty variant: a failed render answered as an internal error.
RenderFailedResponseAs500(header, c) ==
    HttpResponse(500, TextPlain,
                 [kind |-> "Failed to construct progress bar", arg |-> c])

\* main.rs:138-140
RenderFailedResponse(header, c) ==
    HttpResponse(400, TextPlain,
                 [kind |-> "Failed to construct progress bar", arg |-> c])

(***************************************************************************)
(* Inputs.                                                                 *)
(***************************************************************************)
\* Code points of one, two and three UTF-8 bytes: 'a', e-acute, a CJK ideograph.
Alphabet == {97, 233, 20013}

Titles == UNION {[1..n -> Alphabet] : n \in 0..MaxTitleLen}

FiniteProgress == {Fin(n) : n \in -1..MaxProgress}

FiniteScale == {Fin(n) : n \in -1..MaxScale}

\* Inputs of the threshold law: every progress against every scale, with and
\* without an explicit progress_color.
ThresholdQueries ==
    {QueryArgs(None, None, None, sc, pr, None, pc, None) :
        sc \in Option(FiniteScale \cup {PosInf}),
        pr \in FiniteProgress \cup NonFinite,
        pc \in Option({"#000000"})}

\* Inputs of the title-sizing law: every title, with and without explicit
\* widths, on an otherwise plain request.
SizingQueries ==
    {QueryArgs(t, tw, None, None, Fin(50), pw, None, None) :
        t  \in Option(Titles),
        tw \in Option({5}),
        pw \in Option({-7})}

\* Inputs of the deriver's laws: every combination of present and absent fields.
DeriveQueries ==
    {QueryArgs(t, tw, tc, sc, pr, pw, pc, sf) :
        t  \in Option(Titles),
        tw \in Option({5}),
        tc \in Option({"#ffffff"}),
        sc \in Option({Fin(0), Fin(10)}),
        pr \in {Fin(2), Fin(50), Fin(90), PosInf, NaN},
        pw \in Option({-7}),
        pc \in Option({"#000000"}),
        sf \in Option({"", "pt"})}

\* A query string: each known key absent or present with its text, and
\* whether a key the service does not know (other) is present.
RawQuery(t, tw, sc, pr, pw, other) ==
    [title |-> t, title_width |-> tw, title_color |-> None, scale |-> sc,
     progress |-> pr, progress_width |-> pw, progress_color |-> None,
     suffix |-> None, other |-> other]

\* The query strings the workers are sent: well-formed ones (a finite and an
\* infinite progress, an unknown key), progress missing, and each numeric
\* field in turn not a number.
RenderableQuery == RawQuery(None, None, None, Some("50"), None, FALSE)

InfiniteQuery == RawQuery(None, None, None, Some("inf"), None, FALSE)

RawQueries ==
    {RenderableQuery,
     InfiniteQuery,
     RawQuery(None, None, None, Some("50"), None, TRUE),
     RawQuery(None, None, None, None, None, FALSE),
     RawQuery(None, None, None, Some("abc"), None, FALSE),
     RawQuery(None, None, Some("abc"), Some("50"), None, FALSE),
     RawQuery(None, Some("abc"), None, Some("50"), None, FALSE),
     RawQuery(None, None, None, Some("50"), Some("abc"), FALSE)}

\* A request: the peer address, when the connection has one, and the query
\* string.  Every query string comes from a known peer; one of them also
\* comes over a connection without a peer address.
Requests ==
    {[peer |-> Some("10.0.0.1"), raw |-> r] : r \in RawQueries}
    \cup {[peer |-> None, raw |-> InfiniteQuery]}

Workers == 1..NumWorkers

(***************************************************************************)
(* State.                                                                  *)
(*   query, ctx  the QueryArgs handed to the Field Deriver on its own and   *)
(*               the context it returned (None before the call);           *)
(*   cli         the command line: template_file, and whether that file    *)
(*               reads ("ok"), does not read ("unreadable") or holds text  *)
(*               minijinja rejects ("malformed"); port_free: whether bind  *)
(*               can succeed;                                              *)
(*   mpc         where main() stands;                                      *)
(*   env         main's local Environment (None before line 46);           *)
(*   data        web::Data<Environment>, what the workers read (line 64);  *)
(*   bound       whether the listener is bound;                            *)
(*   wk          per worker: the request in hand and the handler's locals; *)
(*   seen        a request answered earlier with its response (history);   *)
(*   served      whether any request was ever taken up (history).          *)
(***************************************************************************)
VARIABLES query, ctx, cli, mpc, env, data, bound, wk, seen, served

vars == <<query, ctx, cli, mpc, env, data, bound, wk, seen, served>>

serverVars == <<cli, mpc, env, data, bound, wk, seen, served>>

\* A worker between requests.  steps lists the handler stages run for the
\* request in hand, log the records written, sent the responses produced.
Idle ==
    [pc |-> "idle", req |-> None, args |-> None, template |-> None, ctx |-> None,
     steps |-> <<>>, log |-> <<>>, sent |-> <<>>]

ServerIdle ==
    /\ cli = [template_file |-> None, file |-> "ok", port_free |-> TRUE]
    /\ mpc = "start"
    /\ env = None
    /\ data = None
    /\ bound = FALSE
    /\ wk = [w \in Workers |-> Idle]
    /\ seen = None
    /\ served = FALSE

(***************************************************************************)
(* main (main.rs:37-74).                                                   *)
(***************************************************************************)
CommandLines ==
    {[template_file |-> None, file |-> "ok", port_free |-> pf] : pf \in BOOLEAN}
    \cup {[template_file |-> Some("bar.svg"), file |-> f, port_free |-> pf] :
             f \in {"ok", "unreadable", "malformed"}, pf \in BOOLEAN}

Init ==
    /\ query = None
    /\ ctx = None
    /\ cli \in CommandLines
    /\ mpc = "start"
    /\ env = None
    /\ data = None
    /\ bound = FALSE
    /\ wk = [w \in Workers |-> Idle]
    /\ seen = None
    /\ served = FALSE

\* let mut env = Environment::new();   (main.rs:46)
NewEnv ==
    /\ mpc = "start"
    /\ env' = Some(Environment_new)
    /\ mpc' = "load"
    /\ UNCHANGED <<query, ctx, cli, data, bound, wk, seen, served>>

\* Faulty variant: a failed load is ignored and startup goes on.
LoadTemplateOrSkip ==
    /\ mpc = "load"
    /\ IF cli.template_file = None
       THEN env' = Some(add_template(env.v, TEMPLATE_NAME, DefaultTemplate))
       ELSE IF cli.file = "ok"
       THEN env' = Some(add_template(env.v, TEMPLATE_NAME, FileTemplate))
       ELSE env' = env
    /\ mpc' = "filter"
    /\ UNCHANGED <<query, ctx, cli, data, bound, wk, seen, served>>

\* match &cli.template_file { ... }   (main.rs:47-57): either ? returns the
\* error from main, which ends the process.
LoadTemplate ==
    /\ mpc = "load"
    /\ IF cli.template_file = None
       THEN /\ env' = Some(add_template(env.v, TEMPLATE_NAME, DefaultTemplate))
            /\ mpc' = "filter"
       ELSE IF cli.file = "ok"
       THEN /\ env' = Some(add_template(env.v, TEMPLATE_NAME, FileTemplate))
            /\ mpc' = "filter"
       ELSE /\ env' = None
            /\ mpc' = "exit_err"
    /\ UNCHANGED <<query, ctx, cli, data, bound, wk, seen, served>>

\* env.add_filter("int", |x: f32| x as i32);   (main.rs:58)
AddFilter ==
    /\ mpc = "filter"
    /\ env' = Some(add_filter(env.v, "int"))
    /\ mpc' = "log"
    /\ UNCHANGED <<query, ctx, cli, data, bound, wk, seen, served>>

\* info!("{} {} at {}:{}.", ...);   (main.rs:60-62)
LogStartup ==
    /\ mpc = "log"
    /\ mpc' = "data"
    /\ UNCHANGED <<query, ctx, cli, env, data, bound, wk, seen, served>>

\* let data = web::Data::new(env);   (main.rs:64): env is moved into data.
PublishData ==
    /\ mpc = "data"
    /\ data' = env
    /\ env' = None
    /\ mpc' = "bind"
    /\ UNCHANGED <<query, ctx, cli, bound, wk, seen, served>>

\* HttpServer::new(..).workers(..).bind((cli.ip, cli.port))?   (main.rs:65-70)
Bind ==
    /\ mpc = "bind"
    /\ IF cli.port_free
       THEN bound' = TRUE /\ mpc' = "run"
       ELSE bound' = FALSE /\ mpc' = "exit_err"
    /\ UNCHANGED <<query, ctx, cli, env, data, wk, seen, served>>

\* .run().await   (main.rs:71-72): the workers start taking requests.
Run ==
    /\ mpc = "run"
    /\ mpc' = "serving"
    /\ UNCHANGED <<query, ctx, cli, env, data, bound, wk, seen, served>>

(***************************************************************************)
(* serve_progress_svg_image (main.rs:89-142), one instance per worker.     *)
(***************************************************************************)
\* A worker takes a request; the Query extractor deserializes the query
\* string before the handler is called (main.rs:89-94).  When it fails the
\* framework answers 400 and the handler does not run.
Receive(w, r) ==
    /\ mpc = "serving"
    /\ wk[w].pc = "idle"
    /\ LET dz == Deserialize(r.raw)
       IN  wk' = [wk EXCEPT ![w] =
                IF dz.ok
                THEN [Idle EXCEPT !.pc = "lookup", !.req = Some(r), !.args = Some(dz.v)]
                ELSE [Idle EXCEPT !.pc = "responded", !.req = Some(r),
                                  !.sent = <<QueryErrorResponse(dz.e)>>]]
    /\ served' = TRUE
    /\ UNCHANGED <<query, ctx, cli, mpc, env, data, bound, seen>>

\* Faulty variant: the handler registers the template again on every request.
LookupReloading(w) ==
    /\ wk[w].pc = "lookup"
    /\ data' = Some(add_template(data.v, TEMPLATE_NAME, DefaultTemplate))
    /\ wk' = [wk EXCEPT ![w].template = Some(DefaultTemplate),
                        ![w].steps = Append(@, "lookup"),
                        ![w].pc = "derive"]
    /\ UNCHANGED <<query, ctx, cli, mpc, env, bound, seen, served>>

\* let log_header = ...; let template = match env.get_template(TEMPLATE_NAME)
\* (main.rs:95-111)
Lookup(w) ==
    /\ wk[w].pc = "lookup"
    /\ LET header == log_header(wk[w].req.v)
           t == get_template(data.v, TEMPLATE_NAME)
       IN  wk' = [wk EXCEPT ![w] =
                IF t.ok
                THEN [@ EXCEPT !.template = Some(t.v),
                               !.steps = Append(@, "lookup"),
                               !.pc = "derive"]
                ELSE [@ EXCEPT !.steps = Append(@, "lookup"),
                               !.log = Append(@, LogRecord("error", header,
                                                           "Failed to find template")),
                               !.sent = Append(@, TemplateMissingResponse(t.e)),
                               !.pc = "responded"]]
    /\ UNCHANGED <<query, ctx, cli, mpc, env, data, bound, seen, served>>

\* let ctx = extract_template_fields(args.into_inner()); debug!(...)
\* (main.rs:128-129)
HandlerDerive(w) ==
    /\ wk[w].pc = "derive"
    /\ LET header == log_header(wk[w].req.v)
           c == extract_template_fields(wk[w].args.v)
       IN  wk' = [wk EXCEPT ![w].ctx = Some(c),
                            ![w].steps = Append(@, "derive"),
                            ![w].log = Append(@, LogRecord("debug", header,
                                                           "Parsed query arguments")),
                            ![w].pc = "render"]
    /\ UNCHANGED <<query, ctx, cli, mpc, env, data, bound, seen, served>>

\* return if let Ok(x) = template.render(&ctx) { ... } else { ... }
\* (main.rs:131-141)
HandlerRender(w) ==
    /\ wk[w].pc = "render"
    /\ LET header == log_header(wk[w].req.v)
           x == render(wk[w].template.v, wk[w].ctx.v)
       IN  wk' = [wk EXCEPT ![w] =
                IF x.ok
                THEN [@ EXCEPT !.steps = Append(@, "render"),
                               !.log = Append(@, LogRecord("info", header, "OK")),
                               !.sent = Append(@, OkResponse(x.v)),
                               !.pc = "responded"]
                ELSE [@ EXCEPT !.steps = Append(@, "render"),
                               !.log = Append(@, LogRecord("error", header, "Failed")),
                               !.sent = Append(@, RenderFailedResponse(header, wk[w].ctx.v)),
                               !.pc = "responded"]]
    /\ UNCHANGED <<query, ctx, cli, mpc, env, data, bound, seen, served>>

\* The response is on the wire and the request's values are dropped; seen may
\* keep the query string and the response for later comparison.
Finish(w) ==
    /\ wk[w].pc = "responded"
    /\ wk' = [wk EXCEPT ![w] = Idle]
    /\ seen' \in {seen, Some([raw |-> wk[w].req.v.raw, resp |-> wk[w].sent[1]])}
    /\ UNCHANGED <<query, ctx, cli, mpc, env, data, bound, served>>

Next ==
    \/ NewEnv
    \/ LoadTemplate
    \/ AddFilter
    \/ LogStartup
    \/ PublishData
    \/ Bind
    \/ Run
    \/ \E w \in Workers : \E r \in Requests : Receive(w, r)
    \/ \E w \in Workers : Lookup(w)
    \/ \E w \in Workers : HandlerDerive(w)
    \/ \E w \in Workers : HandlerRender(w)
    \/ \E w \in Workers : Finish(w)

Spec == Init /\ [][Next]_vars

(***************************************************************************)
(* The Field Deriver on its own.                                           *)
(***************************************************************************)
InitThreshold == query \in ThresholdQueries /\ ctx = None /\ ServerIdle

InitDerive == query \in DeriveQueries /\ ctx = None /\ ServerIdle

InitSizing == query \in SizingQueries /\ ctx = None /\ ServerIdle

\* let ctx = extract_template_fields(args.into_inner());   (main.rs:128)
Derive ==
    /\ ctx = None
    /\ ctx' = Some(extract_template_fields(query))
    /\ UNCHANGED <<query, serverVars>>

\* The context is dropped with the request that owned it.
Drop ==
    /\ ctx # None
    /\ ctx' = None
    /\ UNCHANGED <<query, serverVars>>

NextDerive == Derive \/ Drop

SpecThreshold == InitThreshold /\ [][NextDerive]_vars

SpecDerive == InitDerive /\ [][NextDerive]_vars

SpecSizing == InitSizing /\ [][NextDerive]_vars


Derived == IsSome(ctx)

(***************************************************************************)
(* C1  Threshold law.                                                      *)
(***************************************************************************)
EffScale == unwrap_or(query.scale, Fin(100))

ScalePositive == EffScale = PosInf \/ (IsFinite(EffScale) /\ EffScale.n > 0)

\* progress/scale < a/b over the exact values (b > 0, scale > 0); a NaN ratio
\* (inf/inf, or a NaN progress) is below nothing.
RatioLt(a, b) ==
    LET p == query.progress
        s == EffScale
    IN  CASE p.k = "nan"                -> FALSE
          [] p.k = "inf"                -> FALSE
          [] p.k = "ninf"               -> IsFinite(s)
          [] ~IsFinite(s)               -> 0 < a
          [] OTHER                      -> p.n * b < a * s.n

\* progress/scale >= a/b over the exact values, likewise.
RatioGe(a, b) ==
    LET p == query.progress
        s == EffScale
    IN  CASE p.k = "nan"                -> FALSE
          [] p.k = "inf"                -> IsFinite(s)
          [] p.k = "ninf"               -> FALSE
          [] ~IsFinite(s)               -> 0 >= a
          [] OTHER                      -> p.n * b >= a * s.n

\* C1: with no explicit progress_color and scale > 0 (the supplied scale, or
\* 100 when absent), the derived progress_color is the low-band color when
\* progress/scale < 0.3, the mid-band color when 0.3 <= progress/scale < 0.7
\* and the high-band color when progress/scale >= 0.7; the boundaries 0.3 and
\* 0.7 belong to the higher band.
C1_ThresholdLaw ==
    (Derived /\ query.progress_color = None /\ ScalePositive) =>
        /\ RatioLt(3, 10) => ctx.v["progress_color"] = JStr(LowColor)
        /\ (RatioGe(3, 10) /\ RatioLt(7, 10)) => ctx.v["progress_color"] = JStr(MidColor)
        /\ RatioGe(7, 10) => ctx.v["progress_color"] = JStr(HighColor)

\* A request at the boundary 0.3 (progress 3 of scale 10) was derived mid-band.
C1_Witness ==
    /\ Derived /\ query.progress_color = None
    /\ query.progress = Fin(3) /\ query.scale = Some(Fin(10))
    /\ RatioGe(3, 10) /\ ~RatioLt(3, 10)
    /\ ctx.v["progress_color"] = JStr(MidColor)

(***************************************************************************)
(* C2  Override law.                                                       *)
(***************************************************************************)
\* C2: each of title_color, progress_color, progress_width, title_width and
\* suffix that the request supplies is in the derived context with exactly the
\* supplied value, with or without a title and whatever the other fields are.
C2_OverrideLaw ==
    Derived =>
        /\ IsSome(query.title_color) => ctx.v["title_color"] = JStr(query.title_color.v)
        /\ IsSome(query.progress_color) =>
               ctx.v["progress_color"] = JStr(query.progress_color.v)
        /\ IsSome(query.progress_width) =>
               ctx.v["progress_width"] = JInt(query.progress_width.v)
        /\ IsSome(query.title_width) => ctx.v["title_width"] = JInt(query.title_width.v)
        /\ IsSome(query.suffix) => ctx.v["suffix"] = JStr(query.suffix.v)

\* A request with a title and all five fields explicit was derived, and every
\* explicit value differs from the default the deriver would have computed.
C2_Witness ==
    /\ Derived
    /\ IsSome(query.title) /\ Len(query.title.v) = 1
    /\ IsSome(query.title_color) /\ IsSome(query.progress_color)
    /\ IsSome(query.progress_width) /\ IsSome(query.title_width)
    /\ query.suffix = Some("")
    /\ query.progress = Fin(90) /\ query.scale = None
    /\ ctx.v["progress_color"] = JStr("#000000")
    /\ ctx.v["title_width"] = JInt(5) /\ ctx.v["progress_width"] = JInt(-7)
    /\ ctx.v["suffix"] = JStr("")

(***************************************************************************)
(* C3  Title-sizing law.                                                   *)
(***************************************************************************)
\* C3: a request whose title has L characters and that supplies neither
\* title_width nor progress_width derives title_width = 10 + 6*L and
\* progress_width = 60.
C3_TitleSizingLaw ==
    (Derived /\ IsSome(query.title)
        /\ query.title_width = None /\ query.progress_width = None) =>
        /\ ctx.v["title_width"] = JInt(10 + 6 * CharCount(query.title.v))
        /\ ctx.v["progress_width"] = JInt(60)

(***************************************************************************)
(* C4  Defaults / no-title law.                                            *)
(***************************************************************************)
OnlyProgress ==
    /\ query.title = None /\ query.title_width = None /\ query.title_color = None
    /\ query.scale = None /\ query.progress_width = None
    /\ query.progress_color = None /\ query.suffix = None

Band ==
    IF RatioLt(3, 10) THEN LowColor ELSE IF RatioLt(7, 10) THEN MidColor ELSE HighColor

\* C4: a request that supplies only progress derives exactly the seven fields
\* title_width = 0, progress_width = 90, scale = 100, title_color = '#428bca',
\* suffix = '%', progress = the supplied value and progress_color = the band of
\* progress/100, and no title field.
C4_DefaultsLaw ==
    (Derived /\ OnlyProgress) =>
        /\ DOMAIN ctx.v = {"title_width", "progress_width", "scale", "title_color",
                           "suffix", "progress", "progress_color"}
        /\ ctx.v["title_width"] = JInt(0)
        /\ ctx.v["progress_width"] = JInt(90)
        /\ ctx.v["scale"] = [t |-> "float", v |-> Fin(100)]
        /\ ctx.v["title_color"] = JStr("#428bca")
        /\ ctx.v["suffix"] = JStr("%")
        /\ ctx.v["progress"] = [t |-> "float", v |-> query.progress]
        /\ ctx.v["progress_color"] = JStr(Band)


(***************************************************************************)
(* C5  Required-field law.                                                 *)
(***************************************************************************)
InHand(w) == wk[w].pc # "idle"

Responded(w) == wk[w].pc = "responded"

RawOf(w) == wk[w].req.v.raw

\* Texts that are no number.
NonNumericTexts == {"abc"}

NonNumeric(field) == IsSome(field) /\ field.v \in NonNumericTexts

Invalid(raw) ==
    \/ raw.progress = None
    \/ NonNumeric(raw.progress)
    \/ NonNumeric(raw.scale)
    \/ NonNumeric(raw.title_width)
    \/ NonNumeric(raw.progress_width)

\* C5: a request that omits progress, or gives a non-numeric progress, scale,
\* title_width or progress_width, is answered 400 without the context being
\* derived or the template rendered; an unrecognized parameter on an otherwise
\* valid request does not keep it from the handler.
C5_RequiredFieldLaw ==
    \A w \in Workers :
        InHand(w) =>
            /\ Invalid(RawOf(w)) =>
                   /\ Responded(w)
                   /\ Len(wk[w].sent) = 1
                   /\ wk[w].sent[1].status = 400
                   /\ wk[w].ctx = None
                   /\ wk[w].steps = <<>>
            /\ (~Invalid(RawOf(w)) /\ RawOf(w).other) =>
                   /\ IsSome(wk[w].args)
                   /\ Responded(w) => "render" \in {wk[w].steps[i] : i \in DOMAIN wk[w].steps}

\* One worker has answered a request without progress, another a request whose
\* only flaw is an unknown parameter.
C5_Witness ==
    \E w1, w2 \in Workers :
        /\ Responded(w1) /\ RawOf(w1).progress = None /\ wk[w1].sent[1].status = 400
        /\ Responded(w2) /\ RawOf(w2).other /\ ~Invalid(RawOf(w2))
        /\ wk[w2].sent[1].status = 200

(***************************************************************************)
(* C6  The response of a request whose query parses.                       *)
(***************************************************************************)
\* C6: a request whose query parses gets exactly one response, decided in the
\* order lookup, derive, render: 500 text/plain iff the lookup fails (derive
\* and render are then not run); 400 text/plain with the derived context in
\* the body iff the lookup succeeds and rendering fails; 200 image/svg+xml
\* with the rendered text as body iff both succeed.
C6_ResponseLaw ==
    \A w \in Workers :
        (Responded(w) /\ Deserialize(RawOf(w)).ok) =>
            LET r  == wk[w].sent[1]
                lk == get_template(data.v, TEMPLATE_NAME)
                c  == extract_template_fields(Deserialize(RawOf(w)).v)
                rd == IF lk.ok THEN render(lk.v, c) ELSE Err("not rendered")
            IN  /\ Len(wk[w].sent) = 1
                /\ (r.status = 500 /\ r.content_type = TextPlain) <=> ~lk.ok
                /\ ~lk.ok => wk[w].steps = <<"lookup">>
                /\ (r.status = 400 /\ r.content_type = TextPlain /\ r.body.arg = c)
                       <=> (lk.ok /\ ~rd.ok)
                /\ (r.status = 200 /\ r.content_type = ImageSvg /\ r.body.arg = rd.v)
                       <=> (lk.ok /\ rd.ok)
                /\ lk.ok => wk[w].steps = <<"lookup", "derive", "render">>

\* One worker has answered 200 with the rendered text, another 400 after a
\* failed render with the context in the body.
C6_Witness ==
    \E w1, w2 \in Workers :
        /\ Responded(w1) /\ wk[w1].sent[1].status = 200
        /\ wk[w1].sent[1].content_type = ImageSvg
        /\ Responded(w2) /\ wk[w2].sent[1].status = 400
        /\ IsSome(wk[w2].ctx) /\ wk[w2].sent[1].body.arg = wk[w2].ctx.v

(***************************************************************************)
(* C7  Logging.                                                            *)
(***************************************************************************)
\* The records the default filter (info and above, main.rs:40-42) lets through.
Emitted(w) == SelectSeq(wk[w].log, LAMBDA rec : rec.level # "debug")

\* C7: every answered request, whatever its outcome, has exactly one log
\* record, with its source address (or '<UNKNOWN>') and its request target,
\* at info for a success and at error for every failure.
C7_LoggedOnce ==
    \A w \in Workers :
        Responded(w) =>
            /\ Len(Emitted(w)) = 1
            /\ Emitted(w)[1].header.addr =
                   (IF IsSome(wk[w].req.v.peer) THEN wk[w].req.v.peer.v ELSE "<UNKNOWN>")
            /\ Emitted(w)[1].header.uri = RawOf(w)
            /\ Emitted(w)[1].level =
                   (IF wk[w].sent[1].status = 200 THEN "info" ELSE "error")

(***************************************************************************)
(* C8  The Template Store is written during startup only.                  *)
(***************************************************************************)
\* The Environment, in main's local or, once moved, in the shared Data.
Store == IF IsSome(data) THEN data ELSE env

StoreComplete(e) == DOMAIN e.templates = {TEMPLATE_NAME} /\ e.filters = {"int"}

NoRequestYet == ~served /\ \A w \in Workers : ~InHand(w)

\* C8: whenever a worker has a request in hand the store is complete (the
\* template and the filter int are registered) and shared; and every step
\* that changes the store is a step of startup, taken before any request.
C8_StoreWrittenAtStartupOnly ==
    /\ [](\A w \in Workers :
              InHand(w) => (env = None /\ IsSome(data) /\ StoreComplete(data.v)))
    /\ [][Store' # Store =>
              (mpc \in {"start", "load", "filter"} /\ NoRequestYet /\ NoRequestYet')]_vars

\* Serving has begun: one worker has answered a failed request, another is in
\* the middle of a request, and the store is the one startup built.
C8_Witness ==
    \E w1, w2 \in Workers :
        /\ Responded(w1) /\ wk[w1].sent[1].status = 400
        /\ wk[w2].pc = "render"
        /\ IsSome(data) /\ StoreComplete(data.v)

(***************************************************************************)
(* C9  Startup failure is fatal.                                           *)
(***************************************************************************)
BadSource == IsSome(cli.template_file) /\ cli.file \in {"unreadable", "malformed"}

\* C9: with a template file that cannot be read or registered, main never gets
\* past loading (it ends with the error), the listener is never bound and no
\* request is handled; and the listener is bound only with the template
\* registered.
C9_StartupFailureFatal ==
    /\ BadSource =>
           /\ mpc \in {"start", "load", "exit_err"}
           /\ ~bound
           /\ NoRequestYet
    /\ bound => (IsSome(data) /\ TEMPLATE_NAME \in DOMAIN data.v.templates)

\* main has ended with the error of a malformed template file.
C9_Witness ==
    /\ cli.file = "malformed" /\ BadSource
    /\ mpc = "exit_err" /\ ~bound

(***************************************************************************)
(* C10  Idempotence and independence of requests.                          *)
(***************************************************************************)
\* C10: two requests with the same query string get the same response
\* (status, content-type, body): a response equals the one an earlier request
\* with that query got, and the one a concurrent request with that query gets
\* on another worker, whoever sent them.
C10_Idempotence ==
    \A w \in Workers :
        Responded(w) =>
            /\ (IsSome(seen) /\ seen.v.raw = RawOf(w)) => seen.v.resp = wk[w].sent[1]
            /\ \A w2 \in Workers :
                   (Responded(w2) /\ RawOf(w2) = RawOf(w)) => wk[w2].sent = wk[w].sent

\* Two workers have answered the same query from different peers after failed
\* renders, and an earlier request with that query is remembered.
C10_Witness ==
    \E w1, w2 \in Workers :
        /\ Responded(w1) /\ Responded(w2)
        /\ RawOf(w1) = RawOf(w2)
        /\ wk[w1].req.v.peer # wk[w2].req.v.peer
        /\ wk[w1].sent[1].status = 400 /\ IsSome(wk[w1].ctx)
        /\ IsSome(seen) /\ seen.v.raw = RawOf(w1)

=============================================================================
